---- MODULE Spec2Model ----
(***************************************************************************)
(* A model of the DER writer of derp: the two `Der` writers (src/lib.rs    *)
(* and src/writer.rs), the DER length codec they share, and the reader     *)
(* operations (module `der`) that the writer's output is read back with.   *)
(*                                                                         *)
(* Three specifications share the variables:                               *)
(*   Spec      one writer operation applied to a caller's sink that may    *)
(*             fail, by both writers;                                      *)
(*   LenSpec   write_len / length_of_length / decode_length on a length;   *)
(*   ReadSpec  the writer's output read back, and a buffer read and then   *)
(*             written again.                                              *)
(***************************************************************************)
EXTENDS Integers, Sequences, FiniteSets, TLC

VARIABLES
    phase,      \* "new" after Der::new, "done" after the operation returned;
                \* in ReadSpec the round trip made: "int" or "seq"
    pre,        \* the bytes the caller's sink held when the operation began
    call,       \* the operation called on the Der (a call record)
    plan,       \* how the caller's sink behaves: which write_all fails, and how
    wr,         \* writer.rs: [w |-> the sink's writer state, res |-> the result]
    lb,         \* lib.rs:    [w |-> the sink's writer state, res |-> the result]
    len,        \* LenSpec: the length given to write_len
    lib_len,    \* LenSpec: what lib.rs write_len wrote to a Vec
    writer_len, \* LenSpec: what writer.rs write_len wrote to a Vec
    decoded,    \* LenSpec: decode_length of lib_len and of writer_len
    input,      \* ReadSpec: the bytes given to write_positive_integer
    buffer,     \* ReadSpec: the DER buffer (written, or given to the reader)
    schema,     \* ReadSpec: how many positive_integer calls the reader's body makes
    parsed,     \* ReadSpec: the reader's result
    rewritten   \* ReadSpec: the buffer written back from the parsed values

wvars == <<phase, pre, call, plan, wr, lb>>
lvars == <<len, lib_len, writer_len, decoded>>
rvars == <<input, buffer, schema, parsed, rewritten>>
vars == <<phase, pre, call, plan, wr, lb, len, lib_len, writer_len, decoded,
          input, buffer, schema, parsed, rewritten>>

----------------------------------------------------------------------------
(* Bounds of the model.                                                    *)

\* Byte strings given to the writer: every string over ByteSamples of at
\* most MaxShort bytes, and a few long ones (LongLens).
MaxShort == 2
\* A failing write_all has written at most MaxPartial bytes of its buffer, or
\* all of it but the last byte.
MaxPartial == 1
\* Nesting depth of write_sequence / write_bit_string bodies.
MaxDepth == 2
\* LenSpec: every length up to MaxLen, and the lengths of BigLens.
MaxLen == 300
\* ReadSpec: positive integers in the SEQUENCE read back.
MaxInts == 2

Min(a, b) == IF a < b THEN a ELSE b

\* n >> 8 on an unsigned integer
Shr8(n) == n \div 256

RECURSIVE Pow256(_)
Pow256(k) == IF k = 0 THEN 1 ELSE 256 * Pow256(k - 1)

\* n bytes 1, 2, 3, ... (mod 256): every position differs from its neighbour
Ramp(n) == [i \in 1..n |-> i % 256]

RECURSIVE Concat(_)
Concat(ss) == IF ss = <<>> THEN <<>> ELSE Head(ss) \o Concat(Tail(ss))

RECURSIVE SeqsUpTo(_, _)
SeqsUpTo(S, n) ==
    IF n = 0 THEN {<<>>}
    ELSE LET shorter == SeqsUpTo(S, n - 1)
         IN shorter \cup {Append(s, x) : s \in shorter, x \in S}

----------------------------------------------------------------------------
(* Tag (module der) and Error (lib.rs).                                    *)

Tag_Integer == 2
Tag_BitString == 3
Tag_Null == 5
Tag_Oid == 6
Tag_Sequence == 48

\* impl From<io::Error> for Error: every sink error becomes Error::Io
From_io_Error(e) == "Io"

----------------------------------------------------------------------------
(* The length codec.                                                       *)

\* Der::length_of_length (lib.rs): the loop `while i > 255`
RECURSIVE length_of_length_loop(_, _)
length_of_length_loop(i, num_bytes) ==
    IF i > 255 THEN length_of_length_loop(Shr8(i), num_bytes + 1)
    ELSE num_bytes

\* length_of_length with the loop bound off by one (`while i > 256`)
RECURSIVE Mut_length_of_length_loop(_, _)
Mut_length_of_length_loop(i, num_bytes) ==
    IF i > 256 THEN Mut_length_of_length_loop(Shr8(i), num_bytes + 1)
    ELSE num_bytes

Mut_length_of_length(l) == Mut_length_of_length_loop(l, 1)
length_of_length(l) == length_of_length_loop(l, 1)

\* der::length_of_length, which writer.rs calls: the least number of bytes
\* that hold l (the lengths of the model are below 2^31: at most 4 bytes)
der_length_of_length(l) ==
    CHOOSE k \in 1..4 :
        /\ l \div Pow256(k - 1) < 256
        /\ (k = 1 \/ l \div Pow256(k - 1) >= 1)

\* 0x80 | n for a u8 n
Or80(n) == IF n % 256 >= 128 THEN n % 256 ELSE 128 + (n % 256)

\* (len >> ((i - 1) * 8)) as u8
LenByte(l, i) == (l \div Pow256(i - 1)) % 256

\* write_len: the buffers it hands to write_all, one after the other
lib_write_len(l) ==
    IF l >= 128
    THEN LET n == length_of_length(l)
         IN << <<Or80(n)>> >> \o [j \in 1..n |-> <<LenByte(l, n + 1 - j)>>]
    ELSE << <<l % 256>> >>

\* write_len with the length bytes least significant first
Mut_writer_write_len(l) ==
    IF l >= 128
    THEN LET n == der_length_of_length(l)
         IN << <<Or80(n)>> >> \o [j \in 1..n |-> <<LenByte(l, j)>>]
    ELSE << <<l % 256>> >>
writer_write_len(l) ==
    IF l >= 128
    THEN LET n == der_length_of_length(l)
         IN << <<Or80(n)>> >> \o [j \in 1..n |-> <<LenByte(l, n + 1 - j)>>]
    ELSE << <<l % 256>> >>

\* The engine's native integer width, in bytes (a 64-bit usize)
UsizeBytes == 8

RECURSIVE BigEndianValue(_)
BigEndianValue(bs) ==
    IF bs = <<>> THEN 0
    ELSE 256 * BigEndianValue(SubSeq(bs, 1, Len(bs) - 1)) + bs[Len(bs)]

\* A length of more than 31 bits: larger than every buffer of the model, which
\* keeps it as this value
HugeLen == 127 * Pow256(3) + (Pow256(3) - 1)

\* decode_length on the bytes from position pos of buf:
\* [res, len, used (length octets that carry the value), next (position after)]
LengthFail(e, pos) == [res |-> e, len |-> 0, used |-> 0, next |-> pos]

\* the long form's value v, read from n bytes: it must need the long form
decode_long_value(pos, n, v) ==
    IF v <= 127 THEN LengthFail("NonCanonical", pos)
    ELSE [res |-> "Ok", len |-> v, used |-> n, next |-> pos + n + 1]

\* the long form with n length bytes: no more than the native width, all
\* present, and no more than the value needs
decode_long(buf, pos, n) ==
    IF n = 0 \/ n > UsizeBytes THEN LengthFail("LongLengthNotSupported", pos)
    ELSE IF pos + n > Len(buf) THEN LengthFail("UnexpectedEnd", pos)
    ELSE IF buf[pos + 1] = 0 THEN LengthFail("NonCanonical", pos)
    ELSE decode_long_value(pos, n,
            IF n > 4 \/ (n = 4 /\ buf[pos + 1] >= 128)
            THEN HugeLen
            ELSE BigEndianValue(SubSeq(buf, pos + 1, pos + n)))

decode_length(buf, pos) ==
    IF pos > Len(buf) THEN LengthFail("UnexpectedEnd", pos)
    ELSE IF buf[pos] < 128
         THEN [res |-> "Ok", len |-> buf[pos], used |-> 1, next |-> pos + 1]
    ELSE decode_long(buf, pos, buf[pos] - 128)

----------------------------------------------------------------------------
(* The sink: a std::io::Write.  A Vec<u8> never fails; the caller's sink   *)
(* fails at the write_all the plan names, after writing part of the buffer.*)

\* data: the bytes written; calls: write_all calls that reached the sink;
\* fail: the call that fails (0: none); part: bytes a failing call still
\* writes; kind: the sink's own error; late: write_all calls made after a
\* failure
NewWriter(data, fail, part, kind) ==
    [data |-> data, calls |-> 0, fail |-> fail, part |-> part, kind |-> kind,
     failed |-> FALSE, late |-> 0]

VecWriter(data) == NewWriter(data, 0, 0, "none")

\* Write::write_all.  An empty buffer is written without touching the sink.
write_all(w, buf) ==
    IF buf = <<>> THEN [w |-> w, res |-> "Ok"]
    ELSE IF w.failed
         THEN [w |-> [w EXCEPT !.late = @ + 1], res |-> w.kind]
    ELSE IF w.calls + 1 = w.fail
         THEN [w |-> [w EXCEPT !.calls = @ + 1, !.failed = TRUE,
                               !.data = @ \o SubSeq(buf, 1, Min(w.part, Len(buf) - 1))],
               res |-> w.kind]
    ELSE [w |-> [w EXCEPT !.calls = @ + 1, !.data = @ \o buf], res |-> "Ok"]

\* `self.writer.write_all(b1)?; self.writer.write_all(b2)?; ... Ok(())`:
\* the first failure returns, converted by From<io::Error>
\* the writes with their failures dropped (`let _ = write_all(..)`)
RECURSIVE Mut_try_write_all(_, _)
Mut_try_write_all(w, bufs) ==
    IF bufs = <<>> THEN [w |-> w, res |-> "Ok"]
    ELSE Mut_try_write_all(write_all(w, Head(bufs)).w, Tail(bufs))

RECURSIVE try_write_all(_, _)
try_write_all(w, bufs) ==
    IF bufs = <<>> THEN [w |-> w, res |-> "Ok"]
    ELSE LET r == write_all(w, Head(bufs))
         IN  IF r.res # "Ok" THEN [w |-> r.w, res |-> From_io_Error(r.res)]
             ELSE try_write_all(r.w, Tail(bufs))

----------------------------------------------------------------------------
(* Calls.  A call record names a writer operation and its arguments; the   *)
(* closure given to write_sequence / write_bit_string is `calls` (the      *)
(* operations it calls on the inner Der, each followed by `?`) and `ret`   *)
(* (what it returns when they all succeeded).                              *)

MkCall(op, tag, bytes, u, calls, ret) ==
    [op |-> op, tag |-> tag, bytes |-> bytes, u |-> u, calls |-> calls, ret |-> ret]

Null == MkCall("write_null", Tag_Null, <<>>, 0, <<>>, "Ok")
Element(t, b) == MkCall("write_element", t, b, 0, <<>>, "Ok")
Integer(b) == MkCall("write_integer", Tag_Integer, b, 0, <<>>, "Ok")
PositiveInteger(b) == MkCall("write_positive_integer", Tag_Integer, b, 0, <<>>, "Ok")
Oid(b) == MkCall("write_oid", Tag_Oid, b, 0, <<>>, "Ok")
Raw(b) == MkCall("write_raw", 0, b, 0, <<>>, "Ok")
Sequence(calls, ret) == MkCall("write_sequence", Tag_Sequence, <<>>, 0, calls, ret)
BitString(u, calls, ret) == MkCall("write_bit_string", Tag_BitString, <<>>, u, calls, ret)

\* untrusted::Input::read_all with `while let Ok(byte) = read.read_byte()
\* { buf.push(byte) }`: read_byte i succeeds for every i up to the input's
\* length and its byte is pushed; the next read_byte fails and ends the loop
read_bytes(inp, buf) == buf \o [i \in 1..Len(inp) |-> inp[i]]

----------------------------------------------------------------------------
(* writer.rs: Der<W>.  Each operation takes the writer state of its sink   *)
(* and returns [w |-> the state after, res |-> "Ok" or the Error].          *)

writer_write_null(w) == try_write_all(w, << <<Tag_Null, 0>> >>)

writer_write_element(w, tag, inp) ==
    try_write_all(w, << <<tag>> >> \o writer_write_len(Len(inp)) \o <<inp>>)

\* write_integer that adds the zero byte write_positive_integer adds
Mut_writer_write_integer(w, inp) ==
    LET push_zero == IF Len(inp) > 0 THEN inp[1] >= 128 ELSE FALSE
    IN  try_write_all(w,
            << <<Tag_Integer>> >>
            \o writer_write_len(Len(inp) + (IF push_zero THEN 1 ELSE 0))
            \o (IF push_zero THEN << <<0>> >> ELSE <<>>)
            \o <<inp>>)
writer_write_integer(w, inp) ==
    try_write_all(w, << <<Tag_Integer>> >> \o writer_write_len(Len(inp)) \o <<inp>>)

\* write_positive_integer that also adds a zero byte before a 0x00
Mut_writer_write_positive_integer(w, inp) ==
    LET push_zero == IF Len(inp) > 0 THEN inp[1] = 0 \/ inp[1] >= 128 ELSE FALSE
    IN  try_write_all(w,
            << <<Tag_Integer>> >>
            \o writer_write_len(Len(inp) + (IF push_zero THEN 1 ELSE 0))
            \o (IF push_zero THEN << <<0>> >> ELSE <<>>)
            \o <<inp>>)
writer_write_positive_integer(w, inp) ==
    LET push_zero == IF Len(inp) > 0 THEN inp[1] >= 128 ELSE FALSE
    IN  try_write_all(w,
            << <<Tag_Integer>> >>
            \o writer_write_len(Len(inp) + (IF push_zero THEN 1 ELSE 0))
            \o (IF push_zero THEN << <<0>> >> ELSE <<>>)
            \o <<inp>>)

writer_write_oid(w, inp) ==
    try_write_all(w, << <<Tag_Oid>> >> \o writer_write_len(Len(inp)) \o <<inp>>)

writer_write_raw(w, inp) == try_write_all(w, <<inp>>)

RECURSIVE writer_call(_, _)
RECURSIVE writer_func(_, _, _)

\* write_sequence that writes the length as one byte (`[len as u8]`)
Mut_writer_write_sequence(w, calls, ret) ==
    LET b == writer_func(VecWriter(<<>>), calls, ret)
    IN  IF b.res # "Ok" THEN [w |-> w, res |-> b.res]
        ELSE try_write_all(w, << <<Tag_Sequence>>, <<Len(b.w.data) % 256>>, b.w.data >>)
\* write_sequence: run the closure on a Der over a new Vec, then write the
\* tag, the Vec's length and the Vec to self
writer_write_sequence(w, calls, ret) ==
    LET b == writer_func(VecWriter(<<>>), calls, ret)
    IN  IF b.res # "Ok" THEN [w |-> w, res |-> b.res]
        ELSE try_write_all(w, << <<Tag_Sequence>> >>
                              \o writer_write_len(Len(b.w.data))
                              \o <<b.w.data>>)

\* write_bit_string that pushes 0x00 whatever unused_bits is
Mut_writer_write_bit_string(w, unused_bits, calls, ret) ==
    LET b == writer_func(VecWriter(<<0>>), calls, ret)
    IN  IF b.res # "Ok" THEN [w |-> w, res |-> b.res]
        ELSE try_write_all(w, << <<Tag_BitString>> >>
                              \o writer_write_len(Len(b.w.data))
                              \o <<b.w.data>>)
\* write_bit_string: as write_sequence, on a Vec that holds unused_bits
writer_write_bit_string(w, unused_bits, calls, ret) ==
    LET b == writer_func(VecWriter(<<unused_bits>>), calls, ret)
    IN  IF b.res # "Ok" THEN [w |-> w, res |-> b.res]
        ELSE try_write_all(w, << <<Tag_BitString>> >>
                              \o writer_write_len(Len(b.w.data))
                              \o <<b.w.data>>)

writer_call(w, c) ==
    CASE c.op = "write_null" -> writer_write_null(w)
      [] c.op = "write_element" -> writer_write_element(w, c.tag, c.bytes)
      [] c.op = "write_integer" -> writer_write_integer(w, c.bytes)
      [] c.op = "write_positive_integer" -> writer_write_positive_integer(w, c.bytes)
      [] c.op = "write_oid" -> writer_write_oid(w, c.bytes)
      [] c.op = "write_raw" -> writer_write_raw(w, c.bytes)
      [] c.op = "write_sequence" -> writer_write_sequence(w, c.calls, c.ret)
      [] c.op = "write_bit_string" -> writer_write_bit_string(w, c.u, c.calls, c.ret)

\* The closure `|der| { der.c1(..)?; der.c2(..)?; ...; ret }`
writer_func(w, calls, ret) ==
    IF calls = <<>> THEN [w |-> w, res |-> ret]
    ELSE LET r == writer_call(w, Head(calls))
         IN  IF r.res # "Ok" THEN r ELSE writer_func(r.w, Tail(calls), ret)

----------------------------------------------------------------------------
(* lib.rs: Der<W>.  It has no write_positive_integer and no write_oid, and *)
(* its write_bit_string takes no unused_bits.                              *)

lib_write_null(w) == try_write_all(w, << <<Tag_Null, 0>> >>)

lib_write_element(w, tag, inp) ==
    LET t == try_write_all(w, << <<tag>> >>)
    IN  IF t.res # "Ok" THEN t
        ELSE LET buf == read_bytes(inp, <<>>)
             IN  try_write_all(t.w, lib_write_len(Len(buf)) \o <<buf>>)

lib_write_integer(w, inp) ==
    LET t == try_write_all(w, << <<Tag_Integer>> >>)
    IN  IF t.res # "Ok" THEN t
        ELSE LET buf == read_bytes(inp, <<>>)
             IN  try_write_all(t.w, lib_write_len(Len(buf)) \o <<buf>>)

lib_write_raw(w, inp) == try_write_all(w, <<inp>>)

RECURSIVE lib_call(_, _)
RECURSIVE lib_func(_, _, _)

\* write_sequence: write the tag to self, run the closure on a Der over a
\* new Vec, then write the Vec's length and the Vec to self
lib_write_sequence(w, calls, ret) ==
    LET t == try_write_all(w, << <<Tag_Sequence>> >>)
    IN  IF t.res # "Ok" THEN t
        ELSE LET b == lib_func(VecWriter(<<>>), calls, ret)
             IN  IF b.res # "Ok" THEN [w |-> t.w, res |-> b.res]
                 ELSE try_write_all(t.w, lib_write_len(Len(b.w.data)) \o <<b.w.data>>)

\* write_bit_string: as write_sequence, on a Vec that holds 0x00
lib_write_bit_string(w, calls, ret) ==
    LET t == try_write_all(w, << <<Tag_BitString>> >>)
    IN  IF t.res # "Ok" THEN t
        ELSE LET b == lib_func(VecWriter(<<0>>), calls, ret)
             IN  IF b.res # "Ok" THEN [w |-> t.w, res |-> b.res]
                 ELSE try_write_all(t.w, lib_write_len(Len(b.w.data)) \o <<b.w.data>>)

lib_call(w, c) ==
    CASE c.op = "write_null" -> lib_write_null(w)
      [] c.op = "write_element" -> lib_write_element(w, c.tag, c.bytes)
      [] c.op = "write_integer" -> lib_write_integer(w, c.bytes)
      [] c.op = "write_raw" -> lib_write_raw(w, c.bytes)
      [] c.op = "write_sequence" -> lib_write_sequence(w, c.calls, c.ret)
      [] c.op = "write_bit_string" -> lib_write_bit_string(w, c.calls, c.ret)

lib_func(w, calls, ret) ==
    IF calls = <<>> THEN [w |-> w, res |-> ret]
    ELSE LET r == lib_call(w, Head(calls))
         IN  IF r.res # "Ok" THEN r ELSE lib_func(r.w, Tail(calls), ret)

\* The operations lib.rs has too, with the arguments it can be given
RECURSIVE InLib(_)
InLib(c) ==
    /\ c.op \in {"write_null", "write_element", "write_integer", "write_raw",
                 "write_sequence", "write_bit_string"}
    /\ c.u = 0
    /\ \A i \in 1..Len(c.calls) : InLib(c.calls[i])

----------------------------------------------------------------------------
(* Spec: one operation on a Der over the caller's sink, by both writers.   *)

ByteSamples == {0, 1, 127, 128, 255}
LongLens == {127, 128, 255, 256}
Inputs ==
    SeqsUpTo(ByteSamples, MaxShort)
    \cup {Ramp(n) : n \in LongLens}
    \cup {<<255>> \o Ramp(n - 1) : n \in LongLens}
TagSamples == {Tag_Integer, Tag_Oid, Tag_Sequence}
UnusedSamples == {0, 7}
Rets == {"Ok", "WrongTag"}
IoKinds == {"WriteZero", "BrokenPipe"}
InitSinks == {<<>>, <<171>>}

\* What a closure calls on the inner Der
BodyLeaves == {Null, Raw(Ramp(124)), Raw(Ramp(253)), PositiveInteger(<<128>>)}

RECURSIVE Constructed(_)
\* The closures of nesting depth d: leaf calls only, or around one nested
\* write_sequence / write_bit_string of depth d - 1
Bodies(d) ==
    SeqsUpTo(BodyLeaves, 2)
    \cup (IF d <= 1 THEN {}
          ELSE UNION {{<<c>>, <<Null, c, PositiveInteger(<<128>>)>>} :
                         c \in Constructed(d - 1)})
Constructed(d) ==
    {Sequence(b, r) : b \in Bodies(d), r \in Rets}
    \cup {BitString(u, b, r) : u \in UnusedSamples, b \in Bodies(d), r \in Rets}

NoFailure == [fail |-> 0, part |-> 0, kind |-> "none"]
SinkOf(p, data) == NewWriter(data, p.fail, p.part, p.kind)

\* The sink writes of the call when none fails
NumWrites(c) ==
    LET a == writer_call(VecWriter(<<>>), c).w.calls
        b == IF InLib(c) THEN lib_call(VecWriter(<<>>), c).w.calls ELSE 0
    IN  IF a > b THEN a ELSE b

Plans(c) ==
    {NoFailure}
    \cup {[fail |-> k, part |-> p, kind |-> e] :
             k \in 1..NumWrites(c), p \in 0..MaxPartial, e \in IoKinds}

NotRun == [w |-> VecWriter(<<>>), res |-> "none"]
\* Not written yet, not decoded yet, not read yet
NoBytes == <<-1>>
NotDecoded == <<>>
NotParsed == [res |-> "none", values |-> <<>>]

Init ==
    /\ phase = "new"
    /\ pre \in InitSinks
    /\ call = Null
    /\ plan = NoFailure
    /\ wr = NotRun
    /\ lb = NotRun
    /\ len = 0 /\ lib_len = NoBytes /\ writer_len = NoBytes /\ decoded = NotDecoded
    /\ input = <<>> /\ buffer = NoBytes /\ schema = 0
    /\ parsed = NotParsed /\ rewritten = NoBytes

\* The call c made on a new Der over the sink, under every plan of the sink
Do(c) ==
    /\ \E p \in Plans(c) :
        /\ plan' = p
        /\ wr' = writer_call(SinkOf(p, pre), c)
        /\ lb' = IF InLib(c) THEN lib_call(SinkOf(p, pre), c) ELSE NotRun
    /\ call' = c
    /\ phase' = "done"
    /\ UNCHANGED <<pre, len, lib_len, writer_len, decoded,
                   input, buffer, schema, parsed, rewritten>>

WriteNull == phase = "new" /\ Do(Null)
WriteElement ==
    phase = "new" /\ \E t \in TagSamples, b \in Inputs : Do(Element(t, b))
WriteInteger == phase = "new" /\ \E b \in Inputs : Do(Integer(b))
WritePositiveInteger ==
    phase = "new" /\ \E b \in Inputs : Do(PositiveInteger(b))
WriteOid == phase = "new" /\ \E b \in Inputs : Do(Oid(b))
WriteRaw == phase = "new" /\ \E b \in Inputs : Do(Raw(b))
WriteSequence ==
    /\ phase = "new"
    /\ \E b \in Bodies(MaxDepth), r \in Rets : Do(Sequence(b, r))
WriteBitString ==
    /\ phase = "new"
    /\ \E u \in UnusedSamples, b \in Bodies(MaxDepth), r \in Rets :
           Do(BitString(u, b, r))

Next ==
    \/ WriteNull
    \/ WriteElement
    \/ WriteInteger
    \/ WritePositiveInteger
    \/ WriteOid
    \/ WriteRaw
    \/ WriteSequence
    \/ WriteBitString

Spec == Init /\ [][Next]_vars

----------------------------------------------------------------------------
(* The DER encoding the claims state, written from the wire rules: a       *)
(* length is one byte below 128 and otherwise 0x80 | k and the k base-256  *)
(* digits of the length, most significant first and without a leading 0.   *)

RECURSIVE Digits256(_)
Digits256(n) == IF n < 256 THEN <<n>> ELSE Digits256(n \div 256) \o <<n % 256>>

DerLength(n) ==
    IF n < 128 THEN <<n>> ELSE <<128 + Len(Digits256(n))>> \o Digits256(n)

TLV(tag, content) == <<tag>> \o DerLength(Len(content)) \o content

RECURSIVE Succeeds(_)
\* The closure returns Ok: so do all the closures in it, and its own return
BodySucceeds(calls, ret) ==
    ret = "Ok" /\ \A i \in 1..Len(calls) : Succeeds(calls[i])
Succeeds(c) == BodySucceeds(c.calls, c.ret)

RECURSIVE Enc(_)
\* What the closure's calls write, one after the other
BodyBytes(calls) == Concat([i \in 1..Len(calls) |-> Enc(calls[i])])
Enc(c) ==
    CASE c.op = "write_null" -> <<Tag_Null, 0>>
      [] c.op = "write_element" -> TLV(c.tag, c.bytes)
      [] c.op = "write_integer" -> TLV(Tag_Integer, c.bytes)
      [] c.op = "write_positive_integer" ->
            TLV(Tag_Integer,
                (IF c.bytes # <<>> /\ c.bytes[1] >= 128 THEN <<0>> ELSE <<>>) \o c.bytes)
      [] c.op = "write_oid" -> TLV(Tag_Oid, c.bytes)
      [] c.op = "write_raw" -> c.bytes
      [] c.op = "write_sequence" -> TLV(Tag_Sequence, BodyBytes(c.calls))
      [] c.op = "write_bit_string" -> TLV(Tag_BitString, <<c.u>> \o BodyBytes(c.calls))

IsConstructed(c) == c.op \in {"write_sequence", "write_bit_string"}
HasNested(c) == \E i \in 1..Len(c.calls) : IsConstructed(c.calls[i])
Done(op) == phase = "done" /\ call.op = op
\* The results of the writers that ran the call
Ran == {wr} \cup (IF lb.res = "none" THEN {} ELSE {lb})

----------------------------------------------------------------------------
(* Claims checked under Spec.                                              *)

\* C1: when the body succeeds (and the sink takes every write),
\* write_sequence returns Ok and has appended to the sink exactly 0x30, the
\* DER length of N, and the N bytes the body wrote, in order; a nested
\* write_sequence or write_bit_string contributes its whole TLV to those N
\* bytes.  Both writers.
C1_SequenceAppendsTLV ==
    (Done("write_sequence") /\ BodySucceeds(call.calls, call.ret) /\ plan.fail = 0)
    => \A r \in Ran :
          /\ r.res = "Ok"
          /\ r.w.data = pre \o <<48>> \o DerLength(Len(BodyBytes(call.calls)))
                            \o BodyBytes(call.calls)

\* a write_sequence around a nested one, whose length needs the long form,
\* appended to a sink that held a byte
C1_Witness ==
    /\ Done("write_sequence") /\ BodySucceeds(call.calls, call.ret) /\ plan.fail = 0
    /\ HasNested(call) /\ Len(BodyBytes(call.calls)) >= 256
    /\ pre # <<>> /\ wr.res = "Ok" /\ lb.res = "Ok"

\* C2: when the body succeeds, write_bit_string(u, body) returns Ok and has
\* appended exactly 0x03, the DER length of N + 1, the byte u, and the N
\* bytes the body wrote (lib.rs, which takes no u, for u = 0).
C2_BitStringAppendsTLV ==
    (Done("write_bit_string") /\ BodySucceeds(call.calls, call.ret) /\ plan.fail = 0)
    => \A r \in Ran :
          /\ r.res = "Ok"
          /\ r.w.data = pre \o <<3>> \o DerLength(Len(BodyBytes(call.calls)) + 1)
                            \o <<call.u>> \o BodyBytes(call.calls)

\* a bit string with 7 unused bits whose body wrote 127 bytes: the length
\* field is 0x81 0x80
C2_Witness ==
    /\ Done("write_bit_string") /\ BodySucceeds(call.calls, call.ret) /\ plan.fail = 0
    /\ call.u = 7 /\ Len(BodyBytes(call.calls)) = 127
    /\ wr.res = "Ok" /\ wr.w.data[Len(pre) + 2] = 129

\* C8: write_element appends tag, DER length of |b| and b verbatim;
\* write_integer(b) writes what write_element(INTEGER, b) writes and adds no
\* zero byte; write_oid(b) what write_element(OID, b) writes; write_null
\* appends 0x05 0x00; write_raw(b) appends b alone.
C8_ElementsVerbatim ==
    (phase = "done" /\ plan.fail = 0) =>
        /\ call.op = "write_element" =>
              wr.res = "Ok" /\ wr.w.data = pre \o TLV(call.tag, call.bytes)
        /\ call.op = "write_integer" =>
              /\ wr = writer_write_element(SinkOf(plan, pre), Tag_Integer, call.bytes)
              /\ wr.res = "Ok" /\ wr.w.data = pre \o TLV(2, call.bytes)
        /\ call.op = "write_oid" =>
              /\ wr = writer_write_element(SinkOf(plan, pre), Tag_Oid, call.bytes)
              /\ wr.res = "Ok" /\ wr.w.data = pre \o TLV(6, call.bytes)
        /\ call.op = "write_null" => wr.res = "Ok" /\ wr.w.data = pre \o <<5, 0>>
        /\ call.op = "write_raw" => wr.res = "Ok" /\ wr.w.data = pre \o call.bytes

\* write_integer of 128 bytes whose first has its top bit set
C8_Witness ==
    /\ Done("write_integer") /\ plan.fail = 0 /\ wr.res = "Ok"
    /\ Len(call.bytes) = 128 /\ call.bytes[1] >= 128

\* C9: the first sink write that fails makes the operation return Io,
\* whatever the sink's error, and no write is attempted after it; an
\* operation that returns Ok had no write fail and wrote all its output.
C9_FirstFailureIsIo ==
    phase = "done" =>
        \A r \in Ran :
            /\ r.w.failed => (r.res = "Io" /\ r.w.late = 0)
            /\ r.res = "Ok" => (~r.w.failed /\ r.w.data = pre \o Enc(call))

\* the third write of a write_sequence failed with BrokenPipe
C9_Witness ==
    /\ Done("write_sequence") /\ plan.fail = 3 /\ plan.kind = "BrokenPipe"
    /\ wr.w.failed /\ wr.res = "Io" /\ lb.w.failed /\ lb.res = "Io"

\* C6 (as claimed), for a body that returns an error while every sink write
\* succeeds: the error reaches the caller unchanged and the sink holds what
\* it held before the operation.
C6_NoPartialOutput ==
    (phase = "done" /\ IsConstructed(call) /\ plan.fail = 0
        /\ ~BodySucceeds(call.calls, call.ret))
    => \A r \in Ran : r.res = "WrongTag" /\ r.w.data = pre

\* C10 (as claimed): on the operations lib.rs and writer.rs share, given the
\* same arguments and sinks, both return the same result and leave the same
\* bytes in the sink.
C10_WritersEquivalent ==
    (phase = "done" /\ InLib(call)) => (wr.res = lb.res /\ wr.w.data = lb.w.data)

----------------------------------------------------------------------------
(* LenSpec: write_len on a length, by both writers, into a Vec, and        *)
(* decode_length on what they wrote.                                       *)

BigLens == {65535, 65536, 16777215, 16777216, HugeLen}
LenSamples == 0..MaxLen \cup BigLens

LenInit ==
    /\ len \in LenSamples
    /\ lib_len = NoBytes /\ writer_len = NoBytes /\ decoded = NotDecoded
    /\ phase = "len" /\ pre = <<>> /\ call = Null /\ plan = NoFailure
    /\ wr = NotRun /\ lb = NotRun
    /\ input = <<>> /\ buffer = NoBytes /\ schema = 0
    /\ parsed = NotParsed /\ rewritten = NoBytes

LibWriteLen ==
    /\ lib_len = NoBytes
    /\ lib_len' = try_write_all(VecWriter(<<>>), lib_write_len(len)).w.data
    /\ UNCHANGED <<len, writer_len, decoded>>
    /\ UNCHANGED wvars /\ UNCHANGED rvars

WriterWriteLen ==
    /\ writer_len = NoBytes
    /\ writer_len' = try_write_all(VecWriter(<<>>), writer_write_len(len)).w.data
    /\ UNCHANGED <<len, lib_len, decoded>>
    /\ UNCHANGED wvars /\ UNCHANGED rvars

DecodeLength ==
    /\ lib_len # NoBytes /\ writer_len # NoBytes /\ decoded = NotDecoded
    /\ decoded' = <<decode_length(lib_len, 1), decode_length(writer_len, 1)>>
    /\ UNCHANGED <<len, lib_len, writer_len>>
    /\ UNCHANGED wvars /\ UNCHANGED rvars

LenNext == LibWriteLen \/ WriterWriteLen \/ DecodeLength

LenSpec == LenInit /\ [][LenNext]_vars

\* What the claim says write_len emits for the length l
LenAsClaimed(out, l, k) ==
    IF l < 128 THEN out = <<l>>
    ELSE /\ Len(out) = k + 1
         /\ out[1] = 128 + k
         /\ BigEndianValue(Tail(out)) = l
         /\ out[2] # 0
         /\ (k = 1 <=> l <= 255)
         /\ k = Len(Digits256(l))

\* C3: write_len emits the byte len when len < 128, and otherwise 0x80 | k
\* and exactly k bytes, the big-endian len, where k = length_of_length(len)
\* is minimal, so that the first of the k bytes is not 0x00.  Both writers.
C3_WriteLenMinimal ==
    /\ lib_len # NoBytes => LenAsClaimed(lib_len, len, length_of_length(len))
    /\ writer_len # NoBytes => LenAsClaimed(writer_len, len, length_of_length(len))

\* a length of three bytes, written by both
C3_Witness ==
    /\ len = 65536 /\ lib_len = <<131, 1, 0, 0>> /\ writer_len = <<131, 1, 0, 0>>

\* C4: decode_length of what write_len wrote returns the length, leaves no
\* byte over, and used length_of_length(len) length bytes; it reports
\* neither NonCanonical nor LongLengthNotSupported.
C4_LengthRoundTrip ==
    decoded # NotDecoded =>
        /\ \A i \in 1..2 :
              /\ decoded[i].res = "Ok"
              /\ decoded[i].len = len
              /\ decoded[i].used = length_of_length(len)
        /\ decoded[1].next = Len(lib_len) + 1
        /\ decoded[2].next = Len(writer_len) + 1

\* the smallest length that needs the long form, and one of two bytes
C4_Witness ==
    /\ decoded # NotDecoded /\ len \in {128, 256}
    /\ decoded[2].res = "Ok" /\ decoded[2].used = Len(writer_len) - 1

----------------------------------------------------------------------------
(* The reader (module der), over a buffer and a position in it.  An        *)
(* operation returns [res, value (the content read), next (the position    *)
(* after it)].                                                             *)

ReadFail(e, pos) == [res |-> e, value |-> <<>>, next |-> pos]

\* the content of the element whose length was decoded as l
get_value(buf, pos, l) ==
    IF l.res # "Ok" THEN ReadFail(l.res, pos)
    ELSE IF l.len > Len(buf) - l.next + 1 THEN ReadFail("UnexpectedEnd", pos)
    ELSE [res |-> "Ok", value |-> SubSeq(buf, l.next, l.next + l.len - 1),
          next |-> l.next + l.len]

\* expect_tag: the tag byte, the length, and a view of that many bytes
expect_tag_and_get_value(buf, pos, tag) ==
    IF pos > Len(buf) THEN ReadFail("UnexpectedEnd", pos)
    ELSE IF buf[pos] # tag THEN ReadFail("WrongTag", pos)
    ELSE get_value(buf, pos, decode_length(buf, pos + 1))

\* the checks of positive_integer on the INTEGER element e
check_positive(e, pos) ==
    IF e.res # "Ok" THEN e
    ELSE IF e.value = <<>> THEN ReadFail("UnexpectedEnd", pos)
    ELSE IF e.value[1] = 0 /\ Len(e.value) > 1 /\ e.value[2] < 128
         THEN ReadFail("LeadingZero", pos)
    ELSE IF e.value[1] >= 128 THEN ReadFail("NegativeValue", pos)
    ELSE e

\* positive_integer: the INTEGER's content, unchanged, unless it is empty,
\* starts with a needless 0x00, or has the top bit of its first byte set
positive_integer(buf, pos) ==
    check_positive(expect_tag_and_get_value(buf, pos, Tag_Integer), pos)

\* The body `|input| { let n1 = positive_integer(input)?; ... Ok((n1, ...)) }`
\* with k positive_integer calls, from the values vs already read:
\* [res, values, next]
RECURSIVE positive_integers(_, _, _, _)
positive_integers_after(buf, pos, k, vs, n) ==
    IF n.res # "Ok" THEN [res |-> n.res, values |-> <<>>, next |-> pos]
    ELSE positive_integers(buf, n.next, k - 1, Append(vs, n.value))
positive_integers(buf, pos, k, vs) ==
    IF k = 0 THEN [res |-> "Ok", values |-> vs, next |-> pos]
    ELSE positive_integers_after(buf, pos, k, vs, positive_integer(buf, pos))

\* the end of nested(): the body's result b on the content of element e
nested_end(e, b, pos) ==
    IF b.res # "Ok" THEN [res |-> b.res, values |-> <<>>, next |-> pos]
    ELSE IF b.next # Len(e.value) + 1
         THEN [res |-> "NonCanonical", values |-> <<>>, next |-> pos]
    ELSE [res |-> "Ok", values |-> b.values, next |-> e.next]

nested_body(e, pos, k) ==
    IF e.res # "Ok" THEN [res |-> e.res, values |-> <<>>, next |-> pos]
    ELSE nested_end(e, positive_integers(e.value, 1, k, <<>>), pos)

\* nested(input, SEQUENCE, body): the body must read the content to its end
nested_sequence(buf, pos, k) ==
    nested_body(expect_tag_and_get_value(buf, pos, Tag_Sequence), pos, k)

\* read_all: the operation's result r, unless it left bytes of buf unread
read_all_end(buf, r, values) ==
    IF r.res # "Ok" THEN [res |-> r.res, values |-> <<>>]
    ELSE IF r.next # Len(buf) + 1 THEN [res |-> "Read", values |-> <<>>]
    ELSE [res |-> "Ok", values |-> values]

\* input.read_all(Error::Read, |input| der::nested(input, Tag::Sequence, ..))
read_all_sequence_of(buf, r) == read_all_end(buf, r, r.values)
read_all_sequence(buf, k) == read_all_sequence_of(buf, nested_sequence(buf, 1, k))

\* input.read_all(Error::Read, |input| der::positive_integer(input))
read_all_positive_integer_of(buf, r) == read_all_end(buf, r, <<r.value>>)
read_all_positive_integer(buf) ==
    read_all_positive_integer_of(buf, positive_integer(buf, 1))

----------------------------------------------------------------------------
(* ReadSpec: ("int") write_positive_integer on a Der over an empty Vec and *)
(* the result read with positive_integer; ("seq") a buffer read as a       *)
(* SEQUENCE of positive integers and the values written back, as           *)
(* test_write_pkcs1 does.                                                  *)

IntContents ==
    {<<>>, <<0>>, <<1>>, <<127>>, <<128>>, <<0, 1>>, <<0, 128>>, <<1, 0>>,
     <<1>> \o Ramp(126), <<1>> \o Ramp(127), <<0, 200>> \o Ramp(254)}

\* Length fields for a content of n bytes: the DER one, and wrong ones
LenFields(n) ==
    {DerLength(n), DerLength(n + 1), <<128>>, <<129, n % 256>>,
     <<130, 0, n % 256>>, <<137, 0>>}

IntTLVs ==
    {<<2>> \o DerLength(Len(c)) \o c : c \in IntContents}
    \cup {<<t>> \o lf \o <<1>> : t \in {2, 3}, lf \in LenFields(1)}

SeqContents == {Concat(s) : s \in SeqsUpTo(IntTLVs, MaxInts)}

Buffers ==
    {<<48>> \o DerLength(Len(c)) \o c : c \in SeqContents}
    \cup UNION {{<<t>> \o lf \o c \o trail :
                    t \in {48, 49}, lf \in LenFields(Len(c)), trail \in {<<>>, <<0>>}} :
                 c \in {<<>>, <<2, 1, 1>>, <<2, 1, 1, 2, 2, 0, 128>>}}

ReadInit ==
    /\ \/ phase = "int" /\ input \in Inputs /\ buffer = NoBytes /\ schema = 1
       \/ phase = "seq" /\ input = <<>> /\ buffer \in Buffers /\ schema \in 0..MaxInts
    /\ parsed = NotParsed /\ rewritten = NoBytes
    /\ pre = <<>> /\ call = Null /\ plan = NoFailure /\ wr = NotRun /\ lb = NotRun
    /\ len = 0 /\ lib_len = NoBytes /\ writer_len = NoBytes /\ decoded = NotDecoded

\* der.write_positive_integer(input) on a Der over an empty Vec
EncodePositiveInteger ==
    /\ phase = "int" /\ buffer = NoBytes
    /\ buffer' = writer_write_positive_integer(VecWriter(<<>>), input).w.data
    /\ UNCHANGED <<phase, input, schema, parsed, rewritten, pre, call, plan, wr, lb>>
    /\ UNCHANGED lvars

ReadPositiveInteger ==
    /\ phase = "int" /\ buffer # NoBytes /\ parsed = NotParsed
    /\ parsed' = read_all_positive_integer(buffer)
    /\ UNCHANGED <<phase, input, buffer, schema, rewritten, pre, call, plan, wr, lb>>
    /\ UNCHANGED lvars

ReadSequence ==
    /\ phase = "seq" /\ parsed = NotParsed
    /\ parsed' = read_all_sequence(buffer, schema)
    /\ UNCHANGED <<phase, input, buffer, schema, rewritten, pre, call, plan, wr, lb>>
    /\ UNCHANGED lvars

\* der.write_sequence(|der| { der.write_positive_integer(n1)?; ... }) on a
\* Der over an empty Vec, with the values the reader returned
WriteBack ==
    /\ phase = "seq" /\ parsed.res = "Ok" /\ rewritten = NoBytes
    /\ rewritten' =
          writer_write_sequence(
              VecWriter(<<>>),
              [i \in 1..Len(parsed.values) |-> PositiveInteger(parsed.values[i])],
              "Ok").w.data
    /\ UNCHANGED <<phase, input, buffer, schema, parsed, pre, call, plan, wr, lb>>
    /\ UNCHANGED lvars

ReadNext ==
    \/ EncodePositiveInteger
    \/ ReadPositiveInteger
    \/ ReadSequence
    \/ WriteBack

ReadSpec == ReadInit /\ [][ReadNext]_vars

\* C5 (as claimed): whatever bytes write_positive_integer is given, the
\* reader's positive_integer accepts what it wrote, as a non-negative
\* integer, and writing the value read writes the same bytes again.
C5_PositiveIntegerReadsBack ==
    (phase = "int" /\ parsed # NotParsed) =>
        /\ parsed.res = "Ok"
        /\ parsed.values[1][1] < 128
        /\ writer_write_positive_integer(VecWriter(<<>>), parsed.values[1]).w.data
              = buffer

\* C7: a buffer the reader accepts as a SEQUENCE of positive integers is
\* what write_sequence with one write_positive_integer per integer read, in
\* order, writes.
C7_ReadThenWrite ==
    (phase = "seq" /\ rewritten # NoBytes) => rewritten = buffer

\* two integers, one that keeps its 0x00 before a byte with the top bit set
\* and one of 128 bytes (a long-form length), read and written back
C7_Witness ==
    /\ phase = "seq" /\ rewritten # NoBytes /\ schema = 2
    /\ parsed.values[1] = <<0, 128>> /\ Len(parsed.values[2]) = 128
    /\ Len(buffer) > 128

====
